---- MODULE Spec2Model ----
(***************************************************************************)
(* Story Timeline plugin (src/src/extension.ts): the three tree data       *)
(* providers (attributes, notes, state), the line grammars, handleLines    *)
(* and the selection-change handler installed by activate.                 *)
(*                                                                         *)
(* A JavaScript string is a sequence of one-character strings, so that the *)
(* regular expressions, trim and split are computed character by           *)
(* character.  A JavaScript object is an association list in insertion     *)
(* order, which is the order Object.keys reports for non-index keys.       *)
(***************************************************************************)
EXTENDS Integers, Sequences, FiniteSets, TLC

(***************************************************************************)
(* Bounds of the model.                                                    *)
(***************************************************************************)
MaxLines == 3

(***************************************************************************)
(* Characters.  Alphabet lists the characters the documents use in UTF-16  *)
(* code unit order, the order Array.prototype.sort compares strings by.    *)
(***************************************************************************)
Alphabet ==
  << " ", "*", "+", "-", "/", "0", "1", "2", "3", "4", "5", "6", "7", "8",
     "9", ":", ">", "A", "B", "C", "F", "[", "]", "a", "b", "c", "d", "e",
     "f", "g", "h", "i", "k", "l", "n", "o", "q", "r", "s", "t", "u", "x",
     "y" >>

Code(c) == CHOOSE i \in 1..Len(Alphabet) : Alphabet[i] = c

\* \s of the regular expressions and of trim, over Alphabet
IsSpace(c) == c = " "

\* \d of ATTR_REGEX
IsDigit(c) == c \in {"0", "1", "2", "3", "4", "5", "6", "7", "8", "9"}

DigitValue(c) == Code(c) - Code("0")

MinOf(S) == CHOOSE x \in S : \A y \in S : x <= y
MaxOf(S) == CHOOSE x \in S : \A y \in S : y <= x

\* s.slice(from) with a 1-based index
From(s, i) == SubSeq(s, i, Len(s))

\* String.prototype.trim
Trim(s) ==
  LET keep == {i \in 1..Len(s) : ~IsSpace(s[i])}
  IN  IF keep = {} THEN <<>> ELSE SubSeq(s, MinOf(keep), MaxOf(keep))

\* index of the first character at or after i that is no whitespace
\* (Len(s) + 1 when there is none): where a greedy \s* stops
SkipSpace(s, i) ==
  LET rest == {j \in i..Len(s) : ~IsSpace(s[j])}
  IN  IF rest = {} THEN Len(s) + 1 ELSE MinOf(rest)

\* the positions at or after i where s holds c
Positions(s, c, i) == {j \in i..Len(s) : s[j] = c}

RECURSIVE SplitOn(_, _)
\* s.split(sep) for a one-character separator given as a predicate on
\* characters taken singly: "a/b".split("/")
SplitOn(s, c) ==
  LET at == Positions(s, c, 1)
  IN  IF at = {} THEN << s >>
      ELSE << SubSeq(s, 1, MinOf(at) - 1) >> \o SplitOn(From(s, MinOf(at) + 1), c)

RECURSIVE SplitSpaces(_)
\* s.split(/\s+/): every maximal run of whitespace separates two pieces
SplitSpaces(s) ==
  LET at == {j \in 1..Len(s) : IsSpace(s[j])}
  IN  IF at = {} THEN << s >>
      ELSE << SubSeq(s, 1, MinOf(at) - 1) >>
             \o SplitSpaces(From(s, SkipSpace(s, MinOf(at))))

RECURSIVE DigitsValue(_, _)
\* the number a run of digits denotes, acc being the value of those read
DigitsValue(s, acc) ==
  IF s = <<>> THEN acc ELSE DigitsValue(Tail(s), 10 * acc + DigitValue(Head(s)))

\* Number(text) for text matched by -?\d+
ToNumber(s) ==
  IF s # <<>> /\ Head(s) = "-" THEN 0 - DigitsValue(Tail(s), 0)
  ELSE DigitsValue(s, 0)

(***************************************************************************)
(* The line grammars.  Each regular expression is anchored at both ends,   *)
(* so a match is decided by where its delimiters can stand; the lazy       *)
(* groups take the first delimiter that lets the rest of the line match.   *)
(***************************************************************************)

\* index of the first character at or after i that is no digit
DigitsEnd(s, i) ==
  LET rest == {j \in i..Len(s) : ~IsDigit(s[j])}
  IN  IF rest = {} THEN Len(s) + 1 ELSE MinOf(rest)

\* [+]? and -? at i: the index after the optional character c
SkipOptional(t, i, c) == IF i <= Len(t) /\ t[i] = c THEN i + 1 ELSE i

\* -?\d+\s*$ from j on, k being the index after the optional minus: the
\* span of the value group (from 0: no match)
ValueSpanFrom(t, j, k) ==
  IF DigitsEnd(t, k) > k /\ SkipSpace(t, DigitsEnd(t, k)) = Len(t) + 1
  THEN [from |-> j, to |-> DigitsEnd(t, k) - 1]
  ELSE [from |-> 0, to |-> 0]

\* [+]?(?<value>-?\d+)\s*$ from j on
ValueSpanAt(t, j) == ValueSpanFrom(t, j, SkipOptional(t, j, "-"))

\* \s*[+]?(?<value>-?\d+)\s*$ on the text after the colon: where the value
\* group starts and ends
ValueSpan(t) == ValueSpanAt(t, SkipOptional(t, SkipSpace(t, 1), "+"))

\* the index p if the line holds an opening bracket there, else 0
BracketIf(line, p) == IF p <= Len(line) /\ line[p] = "[" THEN p ELSE 0

\* ^[+*-]\s*\[ and ^[+-]\s*\[ : the index of the opening bracket (0: none)
BracketAt(line, sigils) ==
  IF line = <<>> \/ Head(line) \notin sigils THEN 0
  ELSE BracketIf(line, SkipSpace(line, 2))

NoMatch == [ok |-> FALSE, char |-> <<>>, attr |-> <<>>, value |-> 0,
            note |-> <<>>, path |-> <<>>, text |-> <<>>]

\* the groups of ATTR_REGEX as numberAdd and numberRemove read them, with
\* the brackets at p and q, the colon at c and the value group at span of
\* the text after the colon: char and attr trimmed, value through Number
AttrGroups(line, p, q, c, span) ==
  IF q > c \/ span.from = 0 THEN NoMatch
  ELSE [NoMatch EXCEPT
          !.ok = TRUE,
          !.char = Trim(SubSeq(line, p + 1, q - 1)),
          !.attr = Trim(SubSeq(line, q + 1, c - 1)),
          !.value = ToNumber(SubSeq(From(line, c + 1), span.from, span.to))]

\* ATTR_REGEX with the opening bracket at p (0: none).  The tail
\* :\s*[+]?-?\d+\s*$ holds no colon, so its colon is the last of the line;
\* (?<char>.*?) ends at the first closing bracket, which must precede it.
MatchAttrAt(line, p, closes, colons) ==
  IF p = 0 \/ closes = {} \/ colons = {} THEN NoMatch
  ELSE AttrGroups(line, p, MinOf(closes), MaxOf(colons),
                  ValueSpan(From(line, MaxOf(colons) + 1)))

\* the closing brackets after the opening bracket at p
ClosingAfter(line, p) == IF p = 0 THEN {} ELSE Positions(line, "]", p + 1)

\* line.match(ATTR_REGEX)
MatchAttr(line) ==
  MatchAttrAt(line, BracketAt(line, {"+", "*", "-"}),
              ClosingAfter(line, BracketAt(line, {"+", "*", "-"})),
              Positions(line, ":", 1))

\* NOTE_MATCHER with the opening bracket at p (0: none): (?<char>.*?) ends
\* at the first closing bracket, and (?<note>.+) needs one character
\* after it; char and note as textAdd and textRemove read them, trimmed
MatchNoteAt(line, p, closes) ==
  IF p = 0 \/ closes = {} THEN NoMatch
  ELSE IF MinOf(closes) >= Len(line) THEN NoMatch
  ELSE [NoMatch EXCEPT
          !.ok = TRUE,
          !.char = Trim(SubSeq(line, p + 1, MinOf(closes) - 1)),
          !.note = Trim(From(line, MinOf(closes) + 1))]

\* line.match(NOTE_MATCHER)
MatchNote(line) ==
  MatchNoteAt(line, BracketAt(line, {"+", "-"}),
              ClosingAfter(line, BracketAt(line, {"+", "-"})))

\* STATE_MATCHER given the colons after the sigil: (?<path>.*?) ends at
\* the first colon, and (?<value>.+) needs one character after it; the
\* path split on runs of whitespace and the value trimmed, as setState
\* reads them
MatchStateAt(line, colons) ==
  IF colons = {} THEN NoMatch
  ELSE IF MinOf(colons) >= Len(line) THEN NoMatch
  ELSE [NoMatch EXCEPT
          !.ok = TRUE,
          !.path = SplitSpaces(Trim(SubSeq(line, 2, MinOf(colons) - 1))),
          !.text = Trim(From(line, MinOf(colons) + 1))]

\* line.match(STATE_MATCHER)
MatchState(line) ==
  MatchStateAt(line, IF line = <<>> \/ Head(line) # ">" THEN {}
                     ELSE Positions(line, ":", 2))

(***************************************************************************)
(* JavaScript objects: a sequence of entries [k, v] in insertion order.    *)
(***************************************************************************)
EmptyObject == <<>>

\* Object.keys(o)
Keys(o) == [i \in 1..Len(o) |-> o[i].k]

\* whether o has the own property k
Has(o, k) == \E i \in 1..Len(o) : o[i].k = k

\* o[k] for a property o has
Get(o, k) == o[CHOOSE i \in 1..Len(o) : o[i].k = k].v

\* o[k] = v: an existing property keeps its place, a new one goes last
Put(o, k, v) ==
  IF Has(o, k)
  THEN [i \in 1..Len(o) |-> IF o[i].k = k THEN [k |-> k, v |-> v] ELSE o[i]]
  ELSE Append(o, [k |-> k, v |-> v])

\* delete o[k]
Delete(o, k) == SelectSeq(o, LAMBDA e : e.k # k)

(***************************************************************************)
(* Array.prototype.sort with no comparator: ascending by UTF-16 code units *)
(***************************************************************************)
RECURSIVE StringLess(_, _)
StringLess(a, b) ==
  IF b = <<>> THEN FALSE
  ELSE IF a = <<>> THEN TRUE
  ELSE IF Head(a) # Head(b) THEN Code(Head(a)) < Code(Head(b))
  ELSE StringLess(Tail(a), Tail(b))

RECURSIVE InsertSorted(_, _)
InsertSorted(sorted, x) ==
  IF sorted = <<>> THEN << x >>
  ELSE IF StringLess(x, Head(sorted)) THEN << x >> \o sorted
  ELSE << Head(sorted) >> \o InsertSorted(Tail(sorted), x)

RECURSIVE Sort(_)
Sort(list) ==
  IF list = <<>> THEN <<>> ELSE InsertSorted(Sort(Tail(list)), Head(list))

\* list.map(x => prefix + "/" + x)
WithPrefix(prefix, list) == [i \in 1..Len(list) |-> prefix \o << "/" >> \o list[i]]

(***************************************************************************)
(* AttributesProvider: attr maps a character to an object that maps an     *)
(* attribute name to a number.                                             *)
(***************************************************************************)

\* o[k] = {} where o[k] is missing: if (!this.attr[char]) ...
WithObject(o, k) == IF Has(o, k) THEN o ELSE Put(o, k, EmptyObject)

\* o[k] = 0 where o[k] is missing or 0: if (!this.attr[char][attr]) ...
WithNumber(o, k) == IF Has(o, k) /\ Get(o, k) # 0 THEN o ELSE Put(o, k, 0)

\* o[k] = o[k] + delta
AddTo(o, k, delta) == Put(o, k, Get(o, k) + delta)

\* the two lazy initialisations and the accumulation shared by numberAdd
\* and numberRemove: this.attr[char][attr] becomes its old value (0 when
\* missing or falsy) plus delta
Accumulate(a, char, name, delta) ==
  Put(WithObject(a, char), char,
      AddTo(WithNumber(Get(WithObject(a, char), char), name), name, delta))

\* numberAdd once line.match(ATTR_REGEX) has returned m
numberAddMatched(a, m) ==
  IF m.ok THEN Accumulate(a, m.char, m.attr, m.value) ELSE a

\* AttributesProvider.numberAdd: the store after the call (its return
\* value is MatchAttr(line).ok)
numberAdd(a, line) == numberAddMatched(a, MatchAttr(line))

\* numberRemove with no pruning, an attribute that came to 0 staying
PruneZeroNever(a, char, name) == a

\* the pruning of numberRemove on the accumulated store: an attribute that
\* came to 0 is deleted, and its character with it when that leaves none
PruneZero(a, char, name) ==
  IF Get(Get(a, char), name) # 0 THEN a
  ELSE IF Len(Delete(Get(a, char), name)) = 0 THEN Delete(a, char)
  ELSE Put(a, char, Delete(Get(a, char), name))

\* numberRemove once line.match(ATTR_REGEX) has returned m
numberRemoveMatched(a, m) ==
  IF m.ok
  THEN PruneZero(Accumulate(a, m.char, m.attr, 0 - m.value), m.char, m.attr)
  ELSE a

\* AttributesProvider.numberRemove: the store after the call
numberRemove(a, line) == numberRemoveMatched(a, MatchAttr(line))

(***************************************************************************)
(* NotesProvider: notes maps a character to an array of strings.           *)
(***************************************************************************)

\* o[k] = [] where o[k] is missing: if (!this.notes[char]) ...
WithArray(o, k) == IF Has(o, k) THEN o ELSE Put(o, k, <<>>)

\* o[k].push(x)
Push(o, k, x) == Put(o, k, Append(Get(o, k), x))

\* textAdd once line.match(NOTE_MATCHER) has returned m
textAddMatched(n, m) ==
  IF m.ok THEN Push(WithArray(n, m.char), m.char, m.note) ELSE n

\* NotesProvider.textAdd: the store after the call (its return value is
\* MatchNote(line).ok)
textAdd(n, line) == textAddMatched(n, MatchNote(line))

\* o[k] = kept with no delete, an empty list staying in the object
PutKeepsEmpty(o, k, kept) == Put(o, k, kept)

\* o[k] = kept, or delete o[k] when kept is empty
PutOrDelete(o, k, kept) ==
  IF Len(kept) = 0 THEN Delete(o, k) ELSE Put(o, k, kept)

\* list without its first element equal to x
WithoutFirst(list, x, at) ==
  IF at = {} THEN list
  ELSE SubSeq(list, 1, MinOf(at) - 1) \o From(list, MinOf(at) + 1)

\* textRemove once matched, removing one occurrence of the note, the
\* first, not all
textRemoveFirstMatched(n, m) ==
  IF ~m.ok \/ ~Has(n, m.char) THEN n
  ELSE PutOrDelete(n, m.char,
         WithoutFirst(Get(n, m.char), m.note,
                      {i \in 1..Len(Get(n, m.char)) : Get(n, m.char)[i] = m.note}))

\* textRemove removing one occurrence of the note, the first, not all
textRemoveFirst(n, line) == textRemoveFirstMatched(n, MatchNote(line))

\* textRemove that drops the result of filter: the pushed note stays
textRemoveUnfiltered(n, m) ==
  IF ~m.ok \/ ~Has(n, m.char) THEN n
  ELSE PutOrDelete(n, m.char, Append(Get(n, m.char), m.note))

\* textRemove once line.match(NOTE_MATCHER) has returned m: push, filter,
\* and delete of a list left empty
textRemoveMatched(n, m) ==
  IF ~m.ok \/ ~Has(n, m.char) THEN n
  ELSE PutOrDelete(n, m.char,
         SelectSeq(Append(Get(n, m.char), m.note), LAMBDA x : x # m.note))

\* NotesProvider.textRemove: the store after the call
textRemove(n, line) == textRemoveMatched(n, MatchNote(line))

(***************************************************************************)
(* StateProvider: state is a StateDict, an object whose values are strings *)
(* or StateDicts.                                                          *)
(***************************************************************************)
Scalar(text) == [t |-> "string", s |-> text, d |-> EmptyObject]
Mapping(dict) == [t |-> "object", s |-> <<>>, d |-> dict]

IsMapping(dict, part) == Has(dict, part) /\ Get(dict, part).t = "object"

RECURSIVE SetPathKeepsSubtree(_, _, _)
\* setState sparing an object it finds at the last part
SetPathKeepsSubtree(dict, path, text) ==
  IF Len(path) = 1
  THEN IF IsMapping(dict, Head(path)) THEN dict
       ELSE Put(dict, Head(path), Scalar(text))
  ELSE IF IsMapping(dict, Head(path))
       THEN Put(dict, Head(path),
                Mapping(SetPathKeepsSubtree(Get(dict, Head(path)).d,
                                            Tail(path), text)))
       ELSE Put(dict, Head(path),
                Mapping(SetPathKeepsSubtree(EmptyObject, Tail(path), text)))

RECURSIVE SetPath(_, _, _)
\* the while loop of setState from dict on: the last part is assigned the
\* value, and a part before it that holds a string or nothing is assigned
\* a new object
SetPath(dict, path, text) ==
  IF Len(path) = 1 THEN Put(dict, Head(path), Scalar(text))
  ELSE IF IsMapping(dict, Head(path))
       THEN Put(dict, Head(path),
                Mapping(SetPath(Get(dict, Head(path)).d, Tail(path), text)))
       ELSE Put(dict, Head(path),
                Mapping(SetPath(EmptyObject, Tail(path), text)))

\* setState once line.match(STATE_MATCHER) has returned m
setStateMatched(st, m) == IF m.ok THEN SetPath(st, m.path, m.text) ELSE st

\* StateProvider.setState: the store after the call (its return value is
\* MatchState(line).ok; split never returns an empty array)
setState(st, line) == setStateMatched(st, MatchState(line))

(***************************************************************************)
(* getChildren of the three providers.  A result is the array the promise  *)
(* resolves to, undefined when the method falls off its end, or the        *)
(* TypeError of Object.keys(undefined) and of undefined.sort().  The empty *)
(* string and undefined are both falsy elements.                           *)
(***************************************************************************)
NoResult == [kind |-> "none", list |-> <<>>]
Resolved(list) == [kind |-> "array", list |-> list]
Undefined == [kind |-> "undefined", list |-> <<>>]
Throws == [kind |-> "TypeError", list |-> <<>>]

\* AttributesProvider.getChildren without its two sort() calls
AttrGetChildrenUnsorted(a, element) ==
  IF element = <<>> THEN Resolved(Keys(a))
  ELSE IF Len(SplitOn(element, "/")) # 1 THEN Undefined
  ELSE IF ~Has(a, element) THEN Throws
  ELSE Resolved(WithPrefix(element, Keys(Get(a, element))))

\* AttributesProvider.getChildren
AttrGetChildren(a, element) ==
  IF element = <<>> THEN Resolved(Sort(Keys(a)))
  ELSE IF Len(SplitOn(element, "/")) # 1 THEN Undefined
  ELSE IF ~Has(a, element) THEN Throws
  ELSE Resolved(WithPrefix(element, Sort(Keys(Get(a, element)))))

\* NotesProvider.getChildren: what it returns
NotesGetChildren(n, element) ==
  IF element = <<>> THEN Resolved(Sort(Keys(n)))
  ELSE IF Len(SplitOn(element, "/")) # 1 THEN Undefined
  ELSE IF ~Has(n, element) THEN Throws
  ELSE Resolved(WithPrefix(element, Sort(Get(n, element))))

\* NotesProvider.getChildren: the store after the call, notes.sort()
\* sorting the array of the store in place
NotesAfterGetChildren(n, element) ==
  IF element # <<>> /\ Len(SplitOn(element, "/")) = 1 /\ Has(n, element)
  THEN Put(n, element, Sort(Get(n, element)))
  ELSE n

RECURSIVE WalkPrefix(_, _)
\* the prefix the while loop of StateProvider.getChildren builds
WalkPrefix(prefix, path) ==
  IF path = <<>> THEN prefix
  ELSE WalkPrefix(IF prefix = <<>> THEN Head(path)
                  ELSE prefix \o << "/" >> \o Head(path), Tail(path))

RECURSIVE WalkDict(_, _)
\* the dict that loop ends in: it descends where the part names an object
WalkDict(dict, path) ==
  IF path = <<>> THEN dict
  ELSE IF IsMapping(dict, Head(path))
       THEN WalkDict(Get(dict, Head(path)).d, Tail(path))
       ELSE WalkDict(dict, Tail(path))

\* StateProvider.getChildren for a truthy element split into path
StateChildrenOf(st, path) ==
  Resolved(Sort(WithPrefix(WalkPrefix(<<>>, path), Keys(WalkDict(st, path)))))

\* StateProvider.getChildren
StateGetChildren(st, element) ==
  IF element = <<>> THEN Resolved(Sort(Keys(st)))
  ELSE StateChildrenOf(st, SplitOn(Trim(element), "/"))

(***************************************************************************)
(* handleLines                                                             *)
(***************************************************************************)
Stores(a, n, st) == [attr |-> a, notes |-> n, state |-> st]

\* a clear() of NotesProvider that leaves the notes in place
NotesClearKeeps(n) == n

\* the clear() of the three providers
AttrClear(a) == EmptyObject
NotesClear(n) == EmptyObject
StateClear(st) == EmptyObject

\* whether handleLines hands the line to a parser that accepts it
Consumed(line) ==
  /\ line # <<>>
  /\ \/ Head(line) \in {"*", "+", "-"} /\ MatchAttr(line).ok
     \/ Head(line) \in {"+", "-"} /\ MatchNote(line).ok
     \/ Head(line) = ">" /\ MatchState(line).ok

\* a for loop that a line no parser accepts ends: its break leaving the
\* loop, not the switch
NextIterationBreaksLoop(i, line, n) ==
  IF line = <<>> \/ Consumed(line) THEN i + 1 ELSE n + 1

\* the position of the for loop after the iteration at i over n lines:
\* continue and the break of the switch both go on to the next line
NextIteration(i, line, n) == i + 1

\* an iteration whose '+' and '-' cases try the note parser although the
\* attribute parser accepted the line
HandleLineFallsThrough(s, line) ==
  IF line = <<>> THEN s
  ELSE CASE Head(line) = "*" ->
              [s EXCEPT !.attr = numberAdd(@, line)]
         [] Head(line) = "+" ->
              [s EXCEPT !.attr = numberAdd(@, line),
                        !.notes = textAdd(@, line)]
         [] Head(line) = "-" ->
              [s EXCEPT !.attr = numberRemove(@, line),
                        !.notes = textRemove(@, line)]
         [] Head(line) = ">" ->
              [s EXCEPT !.state = setState(@, line)]
         [] OTHER -> s

\* one iteration of the for loop of handleLines: the stores after it
HandleLine(s, line) ==
  IF line = <<>> THEN s
  ELSE CASE Head(line) = "*" ->
              [s EXCEPT !.attr = numberAdd(@, line)]
         [] Head(line) = "+" ->
              IF MatchAttr(line).ok THEN [s EXCEPT !.attr = numberAdd(@, line)]
              ELSE [s EXCEPT !.notes = textAdd(@, line)]
         [] Head(line) = "-" ->
              IF MatchAttr(line).ok
              THEN [s EXCEPT !.attr = numberRemove(@, line)]
              ELSE [s EXCEPT !.notes = textRemove(@, line)]
         [] Head(line) = ">" ->
              [s EXCEPT !.state = setState(@, line)]
         [] OTHER -> s

(***************************************************************************)
(* Documents.  A document is the array document.getText().split('\n'),     *)
(* fixed for a behaviour and drawn from the lines of one of the palettes.  *)
(***************************************************************************)
AttrAddA == << "*", " ", "[", "A", "]", " ", "c", ":", " ", "2" >>
AttrAddNegative == << "+", " ", "[", "A", "]", " ", "c", ":", " ", "-", "2" >>
AttrRemoveA == << "-", " ", "[", "A", "]", " ", "c", ":", " ", "2" >>
AttrAddOther == << "*", "[", "A", "]", "b", " ", ":", "+", "1" >>
AttrRemoveB == << "-", " ", "[", "B", "]", " ", "c", ":", " ", "1" >>
AttrEmptyChar == << "*", " ", "[", " ", "]", " ", "c", ":", " ", "1" >>
AttrEmptyName == << "+", " ", "[", "A", "]", " ", ":", " ", "1" >>

NoteAddB == << "+", " ", "[", "B", "]", " ", "k" >>
NoteRemoveB == << "-", " ", "[", "B", "]", " ", "k" >>
NoteAddOther == << "+", "[", "B", "]", "a", " " >>
NoteAddA == << "+", " ", "[", "A", "]", " ", "k" >>
StarNote == << "*", " ", "[", "B", "]", " ", "k" >>

StateSetAB == << ">", " ", "a", " ", "b", " ", ":", " ", "1" >>
StateSetA == << ">", " ", "a", " ", ":", " ", "x" >>
StateSetAA == << ">", "a", " ", " ", "a", ":", "x", ":", "y" >>
StateSetUpper == << ">", " ", "A", " ", ":", " ", "x" >>
ClearAB == << "-", " ", "a", " ", "b" >>

Prose == << "h", "i" >>
EmptyLine == <<>>
PlusBare == << "+", " ", "k" >>
AttrNoNumber == << "*", " ", "[", "A", "]", " ", "c", ":", " ", "x" >>
StateNoValue == << ">", " ", "a", " ", "b", ":" >>

AttrLines == {AttrAddA, AttrAddNegative, AttrRemoveA, AttrAddOther, AttrRemoveB}
NoteLines == {NoteAddB, NoteRemoveB, NoteAddOther, NoteAddA, StarNote}
StateLines == {StateSetAB, StateSetA, StateSetAA, StateSetUpper, ClearAB}
MixedLines == {NoteAddB, AttrAddA, StateSetAB, ClearAB, StarNote, Prose, EmptyLine}

\* the document of the end-to-end example
EndToEndDocument ==
  << << "+", " ", "[", "A", "l", "i", "c", "e", "]", " ",
        "F", "o", "u", "n", "d", " ", "a", " ", "k", "e", "y" >>,
     << "*", " ", "[", "A", "l", "i", "c", "e", "]", " ",
        "C", "o", "u", "r", "a", "g", "e", ":", " ", "2" >>,
     << ">", " ", "q", "u", "e", "s", "t", " ", "s", "o", "u", "t", "h", " ",
        ":", " ", "l", "o", "c", "k", "e", "d" >>,
     << "-", " ", "q", "u", "e", "s", "t", " ", "s", "o", "u", "t", "h" >> >>

UnmatchedLinesA == {NoteAddB, StateSetAB, ClearAB, StarNote, Prose}
UnmatchedLinesB == {AttrAddA, PlusBare, AttrNoNumber, StateNoValue, EmptyLine}
AttrSortLines == {AttrRemoveB, AttrAddA, AttrAddOther}
NoteSortLines == {NoteAddB, NoteAddOther, NoteAddA}
StateSortLines == {StateSetAB, StateSetAA, StateSetUpper}
DispatchLines == {NoteAddA, AttrAddNegative, AttrRemoveA, StarNote, StateSetAB}
NameLines == {AttrAddA, AttrRemoveA, AttrAddOther, AttrEmptyChar, AttrEmptyName}

\* the documents of at most MaxLines lines over a palette
DocumentsOver(palette) == UNION {[1..n -> palette] : n \in 1..MaxLines}

(***************************************************************************)
(* State.                                                                  *)
(***************************************************************************)
VARIABLES
  doc,         \* the lines of the document of the active editor
  activeLine,  \* the module variable activeLine
  attr,        \* AttributesProvider.attr
  notes,       \* NotesProvider.notes
  state,       \* StateProvider.state
  pc,          \* "idle", or "loop" inside handleLines
  lines,       \* the parameter lines of the running handleLines
  idx,         \* the 1-based position of its for loop
  refreshes,   \* per provider, the refresh() calls of the last handleLines
  result,      \* what the last getChildren returned
  notified,    \* the last markdown notifications on one line: how many
               \* in a row, and how many of them called handleLines
  whole        \* the passes that ended with the cursor on the last line
               \* of the document, their lines being the whole document:
               \* how many (up to two), and the stores the last one left

vars == << doc, activeLine, attr, notes, state, pc, lines, idx, refreshes,
           result, notified, whole >>

NoPass == [n |-> 0, stores |-> Stores(EmptyObject, EmptyObject, EmptyObject)]

InitWith(documents) ==
  /\ doc \in documents
  /\ activeLine = 0
  /\ attr = EmptyObject
  /\ notes = EmptyObject
  /\ state = EmptyObject
  /\ pc = "idle"
  /\ lines = <<>>
  /\ idx = 1
  /\ refreshes = [attr |-> 0, notes |-> 0, state |-> 0]
  /\ result = NoResult
  /\ notified = [line |-> -1, count |-> 0, runs |-> 0]
  /\ whole = NoPass

Init == InitWith(DocumentsOver(MixedLines))
InitAttr == InitWith(DocumentsOver(AttrLines))
InitNotes == InitWith(DocumentsOver(NoteLines))
InitState == InitWith(DocumentsOver(StateLines))
InitSort ==
  InitWith(DocumentsOver(AttrSortLines) \cup DocumentsOver(NoteSortLines)
             \cup DocumentsOver(StateSortLines))
InitUnmatched ==
  InitWith(DocumentsOver(UnmatchedLinesA) \cup DocumentsOver(UnmatchedLinesB))
InitEndToEnd == InitWith({EndToEndDocument})
InitDispatch == InitWith(DocumentsOver(DispatchLines))
InitNames == InitWith(DocumentsOver(NameLines))

(***************************************************************************)
(* The selection-change handler and handleLines.  JavaScript runs a        *)
(* handler to completion: while pc is "loop" no other handler or query     *)
(* runs, and the steps of handleLines are taken in program order.          *)
(***************************************************************************)

\* the handler without its languageId test
ShouldRecomputeAnyLanguage(editor, languageId, line, active) ==
  editor /\ line # active

\* the three nested conditions of the handler: an active editor, a markdown
\* document, a line other than activeLine
ShouldRecompute(editor, languageId, line, active) ==
  editor /\ languageId = "markdown" /\ line # active

\* a slice that stops before the cursor line: slice(0, line)
LinesBeforeCursor(document, line) == SubSeq(document, 1, line)

\* document.getText().split('\n').slice(0, line + 1)
LinesUpToCursor(document, line) == SubSeq(document, 1, line + 1)

Min2(a, b) == IF a < b THEN a ELSE b

\* the notification recorded in notified
Notify(editor, languageId, line, ran) ==
  IF ~(editor /\ languageId = "markdown") THEN notified
  ELSE IF notified.line = line
       THEN [line |-> line, count |-> Min2(notified.count + 1, 2),
             runs |-> notified.runs + (IF ran THEN 1 ELSE 0)]
       ELSE [line |-> line, count |-> 1, runs |-> IF ran THEN 1 ELSE 0]

\* onDidChangeTextEditorSelection: the handler up to and including the
\* three clear() calls that open handleLines
SelectionChange(editor, languageId, line) ==
  /\ pc = "idle"
  /\ notified' = Notify(editor, languageId, line,
                        ShouldRecompute(editor, languageId, line, activeLine))
  /\ IF ShouldRecompute(editor, languageId, line, activeLine)
     THEN /\ activeLine' = line
          /\ lines' = LinesUpToCursor(doc, line)
          /\ attr' = AttrClear(attr)
          /\ notes' = NotesClear(notes)
          /\ state' = StateClear(state)
          /\ idx' = 1
          /\ pc' = "loop"
          /\ refreshes' = [p \in DOMAIN refreshes |-> 0]
          /\ result' = NoResult
          /\ UNCHANGED << doc, whole >>
     ELSE UNCHANGED << doc, activeLine, attr, notes, state, pc, lines, idx,
                       refreshes, result, whole >>

\* the three providers hold the stores s after the step
Become(s) == attr' = s.attr /\ notes' = s.notes /\ state' = s.state

\* a for loop that stops one line short of the end of lines
LoopDoneEarly(i, n) == i >= n

\* whether the for loop over n lines has ended when it stands at i
LoopDone(i, n) == i > n

\* one iteration of the for loop of handleLines
LoopStep ==
  /\ pc = "loop"
  /\ ~LoopDone(idx, Len(lines))
  /\ Become(HandleLine(Stores(attr, notes, state), lines[idx]))
  /\ idx' = NextIteration(idx, lines[idx], Len(lines))
  /\ UNCHANGED << doc, activeLine, pc, lines, refreshes, result, notified,
                  whole >>

\* the three refresh() calls that close handleLines, and the return of the
\* handler
FireRefresh ==
  /\ pc = "loop"
  /\ LoopDone(idx, Len(lines))
  /\ refreshes' = [p \in DOMAIN refreshes |-> refreshes[p] + 1]
  /\ pc' = "idle"
  /\ whole' = IF activeLine = Len(doc) - 1
               THEN [n |-> Min2(whole.n + 1, 2),
                     stores |-> Stores(attr, notes, state)]
               ELSE whole
  /\ UNCHANGED << doc, activeLine, attr, notes, state, lines, idx, result,
                  notified >>

(***************************************************************************)
(* The tree views query the providers between handlers.  An element is    *)
(* undefined or an id the root listing of some provider hands out in the   *)
(* current state.                                                          *)
(***************************************************************************)
Range(f) == {f[i] : i \in DOMAIN f}

Roots ==
  Range(AttrGetChildren(attr, <<>>).list)
    \cup Range(NotesGetChildren(notes, <<>>).list)
    \cup Range(StateGetChildren(state, <<>>).list)

Elements == {<<>>} \cup Roots

AttrChildren(element) ==
  /\ pc = "idle"
  /\ result' = AttrGetChildren(attr, element)
  /\ UNCHANGED << doc, activeLine, attr, notes, state, pc, lines, idx,
                  refreshes, notified, whole >>

NotesChildren(element) ==
  /\ pc = "idle"
  /\ result' = NotesGetChildren(notes, element)
  /\ notes' = NotesAfterGetChildren(notes, element)
  /\ UNCHANGED << doc, activeLine, attr, state, pc, lines, idx, refreshes,
                  notified, whole >>

StateChildren(element) ==
  /\ pc = "idle"
  /\ result' = StateGetChildren(state, element)
  /\ UNCHANGED << doc, activeLine, attr, notes, state, pc, lines, idx,
                  refreshes, notified, whole >>

Next ==
  \/ \E editor \in BOOLEAN, languageId \in {"markdown", "plaintext"},
        line \in 0..(Len(doc) - 1) :
       SelectionChange(editor, languageId, line)
  \/ LoopStep
  \/ FireRefresh
  \/ \E element \in Elements : AttrChildren(element)
  \/ \E element \in Elements : NotesChildren(element)
  \/ \E element \in Elements : StateChildren(element)

Spec == Init /\ [][Next]_vars
SpecAttr == InitAttr /\ [][Next]_vars
SpecNotes == InitNotes /\ [][Next]_vars
SpecState == InitState /\ [][Next]_vars
SpecSort == InitSort /\ [][Next]_vars
SpecUnmatched == InitUnmatched /\ [][Next]_vars
SpecEndToEnd == InitEndToEnd /\ [][Next]_vars
SpecDispatch == InitDispatch /\ [][Next]_vars
SpecNames == InitNames /\ [][Next]_vars

(***************************************************************************)
(* Properties.                                                             *)
(***************************************************************************)

\* the lines the running or the last handleLines has processed so far
Processed == SubSeq(lines, 1, idx - 1)

\* the delta an attribute line applies to (char, name): adds count
\* positive, removes negative
DeltaOf(line, char, name) ==
  LET m == MatchAttr(line)
  IN  IF ~m.ok \/ m.char # char \/ m.attr # name THEN 0
      ELSE IF Head(line) = "-" THEN 0 - m.value
      ELSE m.value

RECURSIVE SumOfDeltas(_, _, _)
SumOfDeltas(prefix, char, name) ==
  IF prefix = <<>> THEN 0
  ELSE DeltaOf(Head(prefix), char, name) + SumOfDeltas(Tail(prefix), char, name)

\* the (char, name) pairs the attribute lines of the pass address
AttrPairs ==
  {<< MatchAttr(lines[i]).char, MatchAttr(lines[i]).attr >> :
     i \in {j \in 1..Len(lines) : MatchAttr(lines[j]).ok}}

HasAttr(char, name) == Has(attr, char) /\ Has(Get(attr, char), name)

\* C1: the stored total of every (entity, attr) pair is the algebraic sum
\* of the deltas applied to it; the key is absent when that sum is zero and
\* present with exactly that value otherwise.
C1_TotalIsSumOfDeltas ==
  \A pair \in AttrPairs :
    LET sum == SumOfDeltas(Processed, pair[1], pair[2])
    IN  IF sum = 0 THEN ~HasAttr(pair[1], pair[2])
        ELSE HasAttr(pair[1], pair[2]) /\ Get(Get(attr, pair[1]), pair[2]) = sum

Alice == << "A", "l", "i", "c", "e" >>
Courage == << "C", "o", "u", "r", "a", "g", "e" >>
FoundAKey == << "F", "o", "u", "n", "d", " ", "a", " ", "k", "e", "y" >>

\* C2: replaying the end-to-end document with the cursor at line 3 leaves
\* exactly the note Alice -> ["Found a key"], exactly the attribute
\* Alice -> {Courage: 2}, and an empty State Tree.
C2_EndToEnd ==
  (pc = "idle" /\ activeLine = 3) =>
    /\ notes = << [k |-> Alice, v |-> << FoundAKey >>] >>
    /\ attr = << [k |-> Alice, v |-> << [k |-> Courage, v |-> 2] >>] >>
    /\ state = EmptyObject

\* the node of a StateDict at a path
Absent == [t |-> "undefined", s |-> <<>>, d |-> EmptyObject]

RECURSIVE NodeAt(_, _)
NodeAt(dict, path) ==
  IF ~Has(dict, Head(path)) THEN Absent
  ELSE IF Len(path) = 1 THEN Get(dict, Head(path))
  ELSE IF Get(dict, Head(path)).t # "object" THEN Absent
  ELSE NodeAt(Get(dict, Head(path)).d, Tail(path))

RECURSIVE HasEmptyMapping(_)
HasEmptyMapping(dict) ==
  \E i \in 1..Len(dict) :
    /\ dict[i].v.t = "object"
    /\ (dict[i].v.d = EmptyObject \/ HasEmptyMapping(dict[i].v.d))

\* a '-' line that holds a path and nothing else: no bracket, no colon
IsBarePath(line) ==
  /\ line # <<>>
  /\ Head(line) = "-"
  /\ Trim(Tail(line)) # <<>>
  /\ \A i \in 1..Len(line) : line[i] \notin {"[", "]", ":"}

BarePath(line) == SplitSpaces(Trim(Tail(line)))

\* C3: a '-' line holding a bare path clears the State Tree at that path:
\* after the line nothing is stored at the path, and no mapping is left
\* empty.
C3_ClearRemovesPath ==
  [][(LoopStep /\ IsBarePath(lines[idx])) =>
       /\ NodeAt(state', BarePath(lines[idx])) = Absent
       /\ ~HasEmptyMapping(state')]_vars

\* the first n parts of a path
Prefix(path, n) == SubSeq(path, 1, n)

\* C4: after a '>' line that sets path p to v, the node at p is the scalar
\* v whatever was there before, every proper prefix of p is a mapping, and
\* a proper prefix that held a scalar holds a fresh mapping, with the next
\* part of p as its only key.
C4_SetOverwrites ==
  [][(LoopStep /\ MatchState(lines[idx]).ok) =>
       LET m == MatchState(lines[idx])
       IN  /\ NodeAt(state', m.path) = Scalar(m.text)
           /\ \A n \in 1..(Len(m.path) - 1) :
                /\ NodeAt(state', Prefix(m.path, n)).t = "object"
                /\ NodeAt(state, Prefix(m.path, n)).t = "string" =>
                     Keys(NodeAt(state', Prefix(m.path, n)).d)
                       = << m.path[n + 1] >>]_vars

\* set(a b, "1") then set(a, "x") was replayed: a is the scalar "x"
C4_Witness ==
  /\ pc = "loop"
  /\ Processed = << StateSetAB, StateSetA >>
  /\ state = << [k |-> << "a" >>, v |-> Scalar(<< "x" >>)] >>

\* set(a, "x") then set(a b, "1") was replayed: the scalar at the proper
\* prefix a gave way to a fresh mapping
C4_WitnessPrefix ==
  /\ pc = "loop"
  /\ Processed = << StateSetA, StateSetAB >>
  /\ NodeAt(state, << << "a" >>, << "b" >> >>) = Scalar(<< "1" >>)

\* a '-' line that textRemove handles: ATTR_REGEX rejects it and
\* NOTE_MATCHER accepts it
IsNoteRemoval(line) ==
  line # <<>> /\ Head(line) = "-" /\ ~MatchAttr(line).ok /\ MatchNote(line).ok

Bucket(n, char) == IF Has(n, char) THEN Get(n, char) ELSE <<>>

\* C5: removing note v for an entity leaves no occurrence of v in its list
\* however many there were, and leaves no list at all, rather than an empty
\* one, when the list held nothing else.
C5_RemoveDropsAllEqual ==
  [][(LoopStep /\ IsNoteRemoval(lines[idx])) =>
       LET m == MatchNote(lines[idx])
       IN  /\ m.note \notin Range(Bucket(notes', m.char))
           /\ Has(notes', m.char) => Get(notes', m.char) # <<>>
           /\ Range(Bucket(notes, m.char)) \subseteq {m.note} =>
                ~Has(notes', m.char)]_vars

\* the same note was added twice and removed once: no list is left
C5_Witness ==
  /\ pc = "loop"
  /\ Processed = << NoteAddB, NoteAddB, NoteRemoveB >>
  /\ notes = EmptyObject

\* C6: two markdown notifications in a row for the same line call
\* handleLines exactly once between them, whatever the line.
C6_SameLineTwiceOnePass == notified.count >= 2 => notified.runs = 1

\* C7: a notification starts a recompute pass exactly when there is an
\* active editor on a markdown document and the line differs from
\* activeLine; any other notification leaves the three stores, activeLine
\* and the refresh counts as they are.
C7_RecomputeIffMarkdownAndNewLine ==
  [][\A editor \in BOOLEAN, languageId \in {"markdown", "plaintext"},
        line \in 0..(Len(doc) - 1) :
       SelectionChange(editor, languageId, line) =>
         LET due == editor /\ languageId = "markdown" /\ line # activeLine
         IN  /\ due <=> pc' = "loop"
             /\ due => (activeLine' = line
                        /\ lines' = SubSeq(doc, 1, line + 1))
             /\ ~due => UNCHANGED << attr, notes, state, activeLine, pc,
                                     refreshes >>]_vars

\* a pass has filled a store, and a second notification for its line has
\* come and gone
C7_Witness ==
  /\ pc = "idle"
  /\ notified = [line |-> activeLine, count |-> 2, runs |-> 1]
  /\ notes # EmptyObject
  /\ refreshes = [attr |-> 1, notes |-> 1, state |-> 1]

RECURSIVE Replay(_, _)
\* the stores the for loop of handleLines leaves, from stores s on
Replay(s, ls) ==
  IF ls = <<>> THEN s ELSE Replay(HandleLine(s, Head(ls)), Tail(ls))

\* C8: the stores a pass leaves depend on its lines alone, being what the
\* lines make of three empty stores whatever the stores held before; and
\* a pass over the whole document leaves the stores as the pass over the
\* whole document before it left them.
C8_RecomputeIdempotent ==
  [][FireRefresh =>
       /\ Stores(attr, notes, state)
            = Replay(Stores(EmptyObject, EmptyObject, EmptyObject), lines)
       /\ (activeLine = Len(doc) - 1 /\ whole.n > 0) =>
            Stores(attr, notes, state) = whole.stores]_vars

\* the second pass over the whole document has ended, and the stores hold
\* what the first left
C8_Witness ==
  /\ pc = "idle"
  /\ activeLine = Len(doc) - 1
  /\ whole.n = 2
  /\ notes # EmptyObject
  /\ Stores(attr, notes, state) = whole.stores

IsSorted(list) ==
  \A i, j \in 1..Len(list) : i < j => ~StringLess(list[j], list[i])

\* C9: an array getChildren resolves to is in ascending order.
C9_ChildrenSorted == result.kind = "array" => IsSorted(result.list)

\* the characters were inserted B before A and are listed A before B
C9_Witness ==
  /\ Keys(attr) = << << "B" >>, << "A" >> >>
  /\ result = Resolved(<< << "A" >>, << "B" >> >>)

\* C10: a line no parser tried for its first character accepts leaves the
\* three stores as they are, and the loop goes on to the next line.
C10_UnmatchedLineIgnored ==
  [][(LoopStep /\ ~Consumed(lines[idx])) =>
       /\ UNCHANGED << attr, notes, state >>
       /\ idx' = idx + 1
       /\ pc' = "loop"]_vars

\* a line no parser accepts was passed over and the line after it applied
C10_Witness ==
  /\ pc = "loop"
  /\ Processed = << NoteAddB, ClearAB, StateSetAB >>
  /\ notes # EmptyObject
  /\ state # EmptyObject

\* a string that is not empty and has no whitespace at either end
IsTrimmedName(s) == s # <<>> /\ ~IsSpace(s[1]) /\ ~IsSpace(s[Len(s)])

\* C11: every entity name and every attribute name that is a key of the
\* Attribute Store is a trimmed, non-empty string.
C11_NamesTrimmedNonEmpty ==
  \A i \in 1..Len(attr) :
    /\ IsTrimmedName(attr[i].k)
    /\ \A j \in 1..Len(attr[i].v) : IsTrimmedName(attr[i].v[j].k)

\* C12: no bucket of the Note Store is present and empty: every entity key
\* maps to a list with at least one entry.
C12_NoEmptyBucket == \A i \in 1..Len(notes) : Len(notes[i].v) >= 1

\* the only note of B was removed while A kept its own: B is gone and A
\* is the one key left
C12_Witness ==
  /\ pc = "loop"
  /\ Processed = << NoteAddB, NoteAddA, NoteRemoveB >>
  /\ notes = << [k |-> << "A" >>, v |-> << << "k" >> >>] >>

\* C13: every bucket of the Note Store is a list of distinct entries: no
\* bucket holds two entries that are equal strings.
C13_BucketEntriesDistinct ==
  \A i \in 1..Len(notes) :
    \A j, k \in 1..Len(notes[i].v) :
      notes[i].v[j] = notes[i].v[k] => j = k

\* a '-' line that numberRemove handles
IsAttrRemoval(line) ==
  line # <<>> /\ Head(line) = "-" /\ MatchAttr(line).ok

\* the stored total of (char, name), 0 when there is none
Total(a, char, name) ==
  IF Has(a, char) /\ Has(Get(a, char), name) THEN Get(Get(a, char), name)
  ELSE 0

\* the attributes of char other than name
OtherAttrs(a, char, name) ==
  IF Has(a, char) THEN Delete(Get(a, char), name) ELSE EmptyObject

\* what C14 asks of a store after for the removal m applied to a store
\* before
PrunedAtZero(before, after, m) ==
  /\ ~(Has(after, m.char) /\ Has(Get(after, m.char), m.attr))
  /\ OtherAttrs(before, m.char, m.attr) = EmptyObject => ~Has(after, m.char)
  /\ OtherAttrs(after, m.char, m.attr) = OtherAttrs(before, m.char, m.attr)
  /\ Delete(after, m.char) = Delete(before, m.char)

\* C14: after a numberRemove whose resulting total is exactly zero the
\* attribute key is absent, and the entity key too if the entity has no
\* other attribute; the other attributes of the entity and every other
\* entity are as before.
C14_RemovePrunesAtZero ==
  [][(/\ LoopStep
      /\ IsAttrRemoval(lines[idx])
      /\ Total(attr, MatchAttr(lines[idx]).char, MatchAttr(lines[idx]).attr)
            = MatchAttr(lines[idx]).value) =>
       PrunedAtZero(attr, attr', MatchAttr(lines[idx]))]_vars

\* A had c at 2 and b at 1, and the removal of 2 from c left b alone
C14_Witness ==
  /\ pc = "loop"
  /\ Processed = << AttrAddA, AttrAddOther, AttrRemoveA >>
  /\ attr = << [k |-> << "A" >>, v |-> << [k |-> << "b" >>, v |-> 1] >>] >>

\* the first character of a line, "" for the empty line
SigilOf(line) == IF line = <<>> THEN "" ELSE Head(line)

\* the stores a step changes
ChangedStores ==
  {p \in {"attr", "notes", "state"} :
     \/ p = "attr" /\ attr' # attr
     \/ p = "notes" /\ notes' # notes
     \/ p = "state" /\ state' # state}

\* C15: a replayed line changes at most one of the three stores: a '+' or
\* '-' line the attribute grammar accepts changes the Attribute Store
\* alone although the note grammar accepts it too, a '*' line never
\* changes the Note Store, and a '>' line changes the State Tree alone.
C15_OneParserPerLine ==
  [][LoopStep =>
       /\ Cardinality(ChangedStores) <= 1
       /\ (SigilOf(lines[idx]) \in {"+", "-"} /\ MatchAttr(lines[idx]).ok) =>
            ChangedStores \subseteq {"attr"}
       /\ SigilOf(lines[idx]) = "*" => ChangedStores \subseteq {"attr"}
       /\ SigilOf(lines[idx]) = ">" => ChangedStores \subseteq {"state"}]_vars

\* a '+' line both grammars accept was applied after a note of the same
\* entity: the attribute is stored and the bucket holds the one note
C15_Witness ==
  /\ pc = "loop"
  /\ Processed = << NoteAddA, AttrAddNegative >>
  /\ MatchAttr(AttrAddNegative).ok /\ MatchNote(AttrAddNegative).ok
  /\ notes = << [k |-> << "A" >>, v |-> << << "k" >> >>] >>
  /\ attr = << [k |-> << "A" >>, v |-> << [k |-> << "c" >>, v |-> -2] >>] >>

\* C16: a getChildren call on any provider leaves the contents of the
\* three stores as they are, the order of the entries of a note bucket
\* included.
C16_EnumerationReadOnly ==
  [][(\E element \in Elements :
        \/ AttrChildren(element)
        \/ NotesChildren(element)
        \/ StateChildren(element)) =>
       UNCHANGED << attr, notes, state >>]_vars

\* C17: removing a note that is not there changes nothing: no entry is
\* made for an entity that has no bucket, a bucket that lacks the value
\* keeps its entries in their order, every other bucket is as before, and
\* the loop goes on to the next line.
C17_RemoveAbsentIsNoOp ==
  [][(/\ LoopStep
      /\ IsNoteRemoval(lines[idx])
      /\ MatchNote(lines[idx]).note
            \notin Range(Bucket(notes, MatchNote(lines[idx]).char))) =>
       /\ notes' = notes
       /\ idx' = idx + 1
       /\ pc' = "loop"]_vars

\* k was removed from B when B had no bucket, and again when the bucket
\* of B held a alone: the bucket holds a
C17_Witness ==
  /\ pc = "loop"
  /\ Processed = << NoteRemoveB, NoteAddOther, NoteRemoveB >>
  /\ notes = << [k |-> << "B" >>, v |-> << << "a" >> >>] >>

NoStores == Stores(EmptyObject, EmptyObject, EmptyObject)
NotRefreshed == [attr |-> 0, notes |-> 0, state |-> 0]
RefreshedOnce == [attr |-> 1, notes |-> 1, state |-> 1]

\* C18: the steps of a pass are ordered.  A pass opens with three empty
\* stores before its first line; while it runs the stores hold what its
\* first lines, in document order, make of empty stores, and no refresh
\* has fired; refresh fires only when every line has been processed, once
\* on each provider, and not again until the next pass.
C18_PassOrdered ==
  [][
      /\ (pc = "idle" /\ pc' = "loop") =>
          Stores(attr', notes', state') = NoStores /\ idx' = 1
      /\ pc' = "loop" =>
          /\ refreshes' = NotRefreshed
          /\ Stores(attr', notes', state')
               = Replay(NoStores, SubSeq(lines', 1, idx' - 1))
      /\ LoopStep => idx' = idx + 1 /\ lines' = lines
      /\ FireRefresh =>
          /\ idx = Len(lines) + 1
          /\ Stores(attr, notes, state) = Replay(NoStores, lines)
          /\ refreshes = NotRefreshed /\ refreshes' = RefreshedOnce
          /\ UNCHANGED << attr, notes, state >>
      /\ (pc = "idle" /\ pc' = "idle") => refreshes' = refreshes
    ]_vars

\* a pass over a note line, an attribute line and a state line has ended:
\* each provider was refreshed once, with all three lines applied
C18_Witness ==
  /\ pc = "idle"
  /\ lines = << NoteAddB, AttrAddA, StateSetAB >>
  /\ idx = 4
  /\ refreshes = RefreshedOnce
  /\ notes # EmptyObject /\ attr # EmptyObject /\ state # EmptyObject

\* the documents that differ from document in one line after line n
\* (0-based) at most
AgreeingThrough(document, n) ==
  {[document EXCEPT ![j] = l] :
     j \in (n + 2)..Len(document), l \in Range(document) \cup MixedLines}

\* C19: a pass with the cursor on line n replays the lines 0 through n of
\* the document, the cursor line included, and nothing else: the stores
\* it leaves are what those lines make of empty stores, and they are the
\* stores it leaves for any document with the same lines 0 through n.
C19_ReplaysThroughCursor ==
  [][FireRefresh =>
       /\ Len(lines) = activeLine + 1
       /\ \A i \in 0..activeLine : lines[i + 1] = doc[i + 1]
       /\ Stores(attr, notes, state)
            = Replay(NoStores, SubSeq(doc, 1, activeLine + 1))
       /\ \A other \in AgreeingThrough(doc, activeLine) :
            Replay(NoStores, LinesUpToCursor(other, activeLine))
              = Stores(attr, notes, state)]_vars

\* a pass with the cursor on the second of three lines has ended: the
\* note of the cursor line is stored, the state line after it is not
C19_Witness ==
  /\ pc = "idle"
  /\ refreshes = RefreshedOnce
  /\ doc = << AttrAddA, NoteAddB, StateSetAB >>
  /\ activeLine = 1
  /\ attr # EmptyObject /\ notes # EmptyObject /\ state = EmptyObject

====
